---- MODULE Spec2Model ----
(***************************************************************************)
(* A model of joy-caption.py: the LLMProcessor orchestrator, the           *)
(* ProcessingThread worker and the MainWindow presentation layer.          *)
(*                                                                         *)
(* Strings whose characters matter (file paths, the Max Length field) are  *)
(* sequences of one-character strings.  Generated texts are opaque         *)
(* strings; Python's None is the string None below.                        *)
(***************************************************************************)
EXTENDS Integers, Sequences, FiniteSets, TLC

VARIABLES
    selected_files,    \* MainWindow.selected_files
    process_button,    \* MainWindow.process_button.isEnabled()
    file_button,       \* MainWindow.file_button.isEnabled()
    max_length_input,  \* MainWindow.max_length_input.text()
    api_url,           \* MainWindow.api_url.text()
    system_instruction, \* MainWindow.system_instruction.text()
    instruction_combo, \* MainWindow.instruction_combo.currentText()
    files_label,       \* MainWindow.files_label.text(), as a record
    progress_bar,      \* MainWindow.progress.value()
    thread,            \* MainWindow.thread: a slot of threads, 0 before the first run
    threads,           \* the ProcessingThread objects alive, by slot
    queue,             \* signals emitted by workers, queued for the GUI thread
    fs,                \* the text files on disk: path -> chunks written
    clipboard,         \* the system clipboard's content
    uncaught,          \* the exception that left a slot of the GUI thread, if any
    printed,           \* the failures printed since the last Processing banner
    handled,           \* the signals the window has handled since the last click
    copies             \* the texts pyperclip.copy was called with since then

\* The fields of the job configuration
config == <<max_length_input, api_url, system_instruction, instruction_combo>>

vars == <<selected_files, process_button, file_button, config,
          files_label, progress_bar, thread, threads, queue, fs, clipboard,
          uncaught, printed, handled, copies>>

-----------------------------------------------------------------------------
(* Bounds of the model *)

MaxFiles == 2        \* longest file list the dialog returns
MaxThreads == 2      \* ProcessingThread objects alive at once
MaxPathLen == 4      \* longest path of SpecPath
MaxTextLen == 3      \* longest Max Length text of SpecConfig

-----------------------------------------------------------------------------
(* Values *)

None == "None"
Results == {None, "", "t1", "t2"}

\* Python truthiness of "if result:": None and the empty string are falsy.
Truthy(result) == result \notin {None, ""}

\* a.png, a.jpg, b.png, with one-letter extensions
SamplePaths == { <<"a", ".", "p">>, <<"a", ".", "j">>, <<"b", ".", "p">> }

RECURSIVE SeqsUpTo(_, _)
SeqsUpTo(S, n) ==
    IF n = 0 THEN { <<>> }
    ELSE LET shorter == SeqsUpTo(S, n - 1)
         IN shorter \cup { Append(q, c) : q \in { r \in shorter : Len(r) = n - 1 }, c \in S }

IsInjective(q) == \A i, j \in 1..Len(q) : q[i] = q[j] => i = j

\* What QFileDialog.getOpenFileNames returns: a selection of distinct files,
\* or nothing when the dialog is cancelled.
FileLists == { q \in SeqsUpTo(SamplePaths, MaxFiles) : IsInjective(q) }

-----------------------------------------------------------------------------
(* os.path.splitext and the path save_result writes *)

PathChars == {"a", "b", ".", "/"}

\* str.rfind, 1-based: the last index of c in p, 0 when there is none
RFind(p, c) ==
    LET hits == { k \in 1..Len(p) : p[k] = c }
    IN IF hits = {} THEN 0 ELSE CHOOSE k \in hits : \A m \in hits : m <= k

Prefix(p, n) == SubSeq(p, 1, n)
Suffix(p, k) == SubSeq(p, k, Len(p))

\* genericpath._splitext's loop: skip the leading dots of the file name; the
\* last dot starts an extension only if a non-dot precedes it in the name.
RECURSIVE SplitScan(_, _, _)
SplitScan(p, filenameIndex, dotIndex) ==
    IF filenameIndex < dotIndex
    THEN IF p[filenameIndex] # "."
         THEN <<Prefix(p, dotIndex - 1), Suffix(p, dotIndex)>>
         ELSE SplitScan(p, filenameIndex + 1, dotIndex)
    ELSE <<p, <<>> >>

splitextLastDot(p) ==
    LET dotIndex == RFind(p, ".")
    IN IF dotIndex > 0
       THEN <<Prefix(p, dotIndex - 1), Suffix(p, dotIndex)>>
       ELSE <<p, <<>> >>

splitext(p) ==
    LET sepIndex == RFind(p, "/")
        dotIndex == RFind(p, ".")
    IN IF dotIndex > sepIndex
       THEN SplitScan(p, sepIndex + 1, dotIndex)
       ELSE <<p, <<>> >>

TxtExt == <<".", "t", "x", "t">>

txt_output_path(output_path) == splitext(output_path)[1] \o TxtExt

\* ImageProcessor.process_image's path hint: the path it was given
process_image_path(file_path) == file_path

-----------------------------------------------------------------------------
(* str.isdigit, int and the configured output length *)

TextChars == {"0", "2", "5", "6", "a", "-", " ", "sup2"}

DecimalDigits == {"0", "1", "2", "3", "4", "5", "6", "7", "8", "9"}

DigitVal(c) ==
    CASE c = "0" -> 0 [] c = "1" -> 1 [] c = "2" -> 2 [] c = "3" -> 3
      [] c = "4" -> 4 [] c = "5" -> 5 [] c = "6" -> 6 [] c = "7" -> 7
      [] c = "8" -> 8 [] c = "9" -> 9

\* str.isdigit: non-empty and every character a digit; the superscript two
\* (sup2) is a digit to isdigit though it is no decimal digit.
IsDigitChar(c) == c \in DecimalDigits \cup {"sup2"}

isdigit(text) == Len(text) > 0 /\ \A k \in 1..Len(text) : IsDigitChar(text[k])

RECURSIVE Strip(_)
Strip(text) ==
    IF text = <<>> THEN text
    ELSE IF Head(text) = " " THEN Strip(Tail(text))
    ELSE IF text[Len(text)] = " " THEN Strip(Prefix(text, Len(text) - 1))
    ELSE text

RECURSIVE DecimalValue(_)
DecimalValue(digits) ==
    IF digits = <<>> THEN 0
    ELSE 10 * DecimalValue(Prefix(digits, Len(digits) - 1)) + DigitVal(digits[Len(digits)])

ValueError == "ValueError"

\* int(text): surrounding whitespace and one sign are accepted, the rest must
\* be decimal digits; anything else raises ValueError.
int(text) ==
    LET s == Strip(text)
        signed == s # <<>> /\ Head(s) \in {"-", "+"}
        digits == IF signed THEN Tail(s) ELSE s
    IN IF digits # <<>> /\ \A k \in 1..Len(digits) : digits[k] \in DecimalDigits
       THEN [raises |-> FALSE,
             value |-> IF signed /\ Head(s) = "-" THEN 0 - DecimalValue(digits)
                       ELSE DecimalValue(digits)]
       ELSE [raises |-> TRUE, value |-> 0]

DefaultMaxLength == 256

\* process_files' max_length argument:
\*   int(text) if text.isdigit() else 256
max_length_arg(text) ==
    IF isdigit(text) THEN int(text) ELSE [raises |-> FALSE, value |-> DefaultMaxLength]

-----------------------------------------------------------------------------
(* Signals and ProcessingThread objects *)

Slots == 1..MaxThreads

Sig(sig, current, total, text) ==
    [sig |-> sig, current |-> current, total |-> total, text |-> text]

\* self.progress.emit(i + 1, len(self.files)), i counted from 0
ProgressOffByOne(i, files) == Sig("progress", i, Len(files), "")

ProgressSignal(i, files) == Sig("progress", i + 1, Len(files), "")

FinishedSignal == Sig("finished", 0, 0, "")
ErrorSignal(msg) == Sig("error", 0, 0, msg)
\* result_ready emitted without the text
ResultReadyBlank(text) == Sig("result_ready", 0, 0, "")

ResultReadySignal(text) == Sig("result_ready", 0, 0, text)

\* the str(e) of what process_image and wrap_and_generate raise
PreprocessError == "cannot read image"
InferenceError == "server unreachable"

\* A slot holding no object
NoThread ==
    [pc |-> "free", files |-> <<>>, max_length |-> 0, start_time |-> FALSE,
     api_url |-> "", system_instruction |-> "", instruction |-> "",
     i |-> 0, result |-> None, output_path |-> <<>>, request |-> 0,
     emitted |-> <<>>, calls |-> <<>>, texts |-> <<>>, saves |-> <<>>,
     failed_at |-> 0, raised |-> "", requests |-> <<>>, trace |-> <<>>]

\* The attributes LLMProcessor.__init__ stores
Processor(url, system, instruction, max_length) ==
    [api_url |-> url, system_instruction |-> system, instruction |-> instruction,
     max_length |-> max_length]

\* ProcessingThread(processor, files) once start() was called.  emitted, calls,
\* texts, saves, failed_at, raised, requests and trace record what the run
\* did: the signals it emitted, the indices it passed to process_file, the
\* texts process_file returned, what became of each save_result call, the
\* index of the file the exception was raised at and that exception, the
\* arguments of each wrap_and_generate call, and its calls and signals in the
\* order they were made.
NewThread(files, processor) ==
    [NoThread EXCEPT !.pc = "start", !.files = files,
                     !.max_length = processor.max_length,
                     !.api_url = processor.api_url,
                     !.system_instruction = processor.system_instruction,
                     !.instruction = processor.instruction]

\* The run has emitted neither finished nor error
Running(t) == t.pc \in {"start", "loop", "infer", "save", "emit_result", "emit_progress"}

\* started and not yet returned from run
Active(t) == Running(t) \/ t.pc = "exit"

\* A slot for a new object: a free one, or the one self.thread is about to stop
\* referring to when its run has returned.
Reusable(s) == threads[s].pc = "free" \/ (s = thread /\ threads[s].pc = "returned")

NewSlot == CHOOSE s \in Slots : Reusable(s) /\ \A r \in Slots : Reusable(r) => s <= r

\* An object MainWindow.thread stopped referring to: nothing reads its
\* attributes again once its run has left the try statement.
Orphan(t) == IF t.pc = "exit" THEN [NoThread EXCEPT !.pc = "exit"] ELSE t

\* One entry of trace: what run did, and for which file of the list (0: none)
Event(op, file) == [op |-> op, file |-> file]

Did(t, op, file) == [t EXCEPT !.trace = Append(@, Event(op, file))]

Emit(s, t, signal) ==
    /\ threads' = [threads EXCEPT ![s] = [t EXCEPT !.emitted = Append(@, signal)]]
    /\ queue' = Append(queue, signal)

-----------------------------------------------------------------------------
(* MainWindow *)

\* The texts the window is built with, and the items of the instruction box
DefaultApiUrl == "http://localhost:5001"
DefaultSystemInstruction == "You are a helpful image captioner."
Instructions == << "Describe the image in detail. Be specific.",
                  "Provide a brief description of the image." >>

Label(kind, count, msg) == [kind |-> kind, count |-> count, msg |-> msg]

\* The user picks files in the dialog opened by the Select Images button
select_files(files) ==
    /\ file_button
    /\ IF files # <<>>
       THEN /\ selected_files' = files
            /\ files_label' = Label("Selected", Len(files), "")
            /\ process_button' = TRUE
       ELSE UNCHANGED <<selected_files, files_label, process_button>>
    /\ UNCHANGED <<file_button, config, progress_bar, thread, threads,
                   queue, fs, clipboard, uncaught, printed, handled, copies>>

ConstructorError == "ConstructorError"

\* setEnabled(False) of both buttons before the worker is made
EnabledOnStartKept == TRUE

EnabledOnStart == FALSE

\* The user clicks Process Images.  constructor_raises: KoboldAPICore or
\* ImageProcessor raises while LLMProcessor is constructed.
process_files(constructor_raises) ==
    /\ process_button
    /\ \E s \in Slots : Reusable(s)
    /\ IF selected_files = <<>>
       THEN UNCHANGED vars
       ELSE /\ process_button' = EnabledOnStart
            /\ file_button' = EnabledOnStart
            /\ LET max_length == max_length_arg(max_length_input)
               IN IF max_length.raises
                  THEN /\ uncaught' = ValueError
                       /\ UNCHANGED <<thread, threads, printed, handled, copies>>
                  ELSE IF constructor_raises
                  THEN /\ uncaught' = ConstructorError
                       /\ UNCHANGED <<thread, threads, printed, handled, copies>>
                  ELSE /\ thread' = NewSlot
                       /\ threads' = [s \in Slots |->
                                        IF s = NewSlot
                                        THEN NewThread(selected_files,
                                                 Processor(api_url, system_instruction,
                                                           instruction_combo, max_length.value))
                                        ELSE Orphan(threads[s])]
                       /\ printed' = {}
                       /\ handled' = <<>>
                       /\ copies' = <<>>
                       /\ UNCHANGED uncaught
            /\ UNCHANGED <<selected_files, config, files_label,
                           progress_bar, queue, fs, clipboard>>

\* The event loop takes the first queued signal and calls the slot connected
\* to it
Handle ==
    /\ queue' = Tail(queue)
    /\ handled' = Append(handled, Head(queue))

\* int((current / total) * 100)
Percent(current, total) == (current * 100) \div total

update_progress ==
    /\ queue # <<>> /\ Head(queue).sig = "progress"
    /\ progress_bar' = Percent(Head(queue).current, Head(queue).total)
    /\ Handle
    /\ UNCHANGED <<selected_files, process_button, file_button, config,
                   files_label, thread, threads, fs, clipboard, uncaught, printed,
                   copies>>

processing_finished ==
    /\ queue # <<>> /\ Head(queue).sig = "finished"
    /\ process_button' = TRUE
    /\ file_button' = TRUE
    /\ files_label' = Label("Selected", Len(selected_files), "")
    /\ progress_bar' = 0
    /\ Handle
    /\ UNCHANGED <<selected_files, config, thread, threads, fs,
                   clipboard, uncaught, printed, copies>>

processing_error ==
    /\ queue # <<>> /\ Head(queue).sig = "error"
    /\ process_button' = TRUE
    /\ file_button' = TRUE
    /\ files_label' = Label("Error", 0, Head(queue).text)
    /\ progress_bar' = 0
    /\ Handle
    /\ UNCHANGED <<selected_files, config, thread, threads, fs,
                   clipboard, uncaught, printed, copies>>

\* The user edits a field of the job configuration: the fields stay enabled
\* while a run is in progress
edit_api_url(text) ==
    /\ api_url' = text
    /\ UNCHANGED <<selected_files, process_button, file_button, max_length_input,
                   system_instruction, instruction_combo, files_label, progress_bar,
                   thread, threads, queue, fs, clipboard, uncaught, printed,
                   handled, copies>>

edit_system_instruction(text) ==
    /\ system_instruction' = text
    /\ UNCHANGED <<selected_files, process_button, file_button, max_length_input,
                   api_url, instruction_combo, files_label, progress_bar,
                   thread, threads, queue, fs, clipboard, uncaught, printed,
                   handled, copies>>

choose_instruction(item) ==
    /\ instruction_combo' = Instructions[item]
    /\ UNCHANGED <<selected_files, process_button, file_button, max_length_input,
                   api_url, system_instruction, files_label, progress_bar,
                   thread, threads, queue, fs, clipboard, uncaught, printed,
                   handled, copies>>

edit_max_length(text) ==
    /\ max_length_input' = text
    /\ UNCHANGED <<selected_files, process_button, file_button, api_url,
                   system_instruction, instruction_combo, files_label, progress_bar,
                   thread, threads, queue, fs, clipboard, uncaught, printed,
                   handled, copies>>

ClipboardError == "ClipboardError"
CopyFailure == "Failed to copy to clipboard"

\* Does copy_to_clipboard raise to the event loop?  Its try/except catches
\* every Exception of pyperclip.copy.
copy_propagates(copy_ok) == ~copy_ok

copy_raises(copy_ok) == FALSE

\* copy_ok: pyperclip.copy returns; otherwise it raises and the handler prints
copy_to_clipboard(copy_ok) ==
    /\ queue # <<>> /\ Head(queue).sig = "result_ready"
    /\ copies' = Append(copies, Head(queue).text)
    /\ clipboard' = IF copy_ok THEN Head(queue).text ELSE clipboard
    /\ IF copy_raises(copy_ok)
       THEN uncaught' = ClipboardError /\ UNCHANGED printed
       ELSE /\ printed' = IF copy_ok THEN printed ELSE printed \cup {CopyFailure}
            /\ UNCHANGED uncaught
    /\ Handle
    /\ UNCHANGED <<selected_files, process_button, file_button, config,
                   files_label, progress_bar, thread, threads, fs>>

-----------------------------------------------------------------------------
(* LLMProcessor.save_result *)

SaveOutcomes == {"ok", "open_fails", "write_fails"}

WriteError == "cannot write"

\* What a successful write leaves in a file opened with mode "w"
write_append(old, text) == old \o <<text>>

write_content(old, text) == <<text>>

\* Does save_result raise to its caller?  Its try/except catches every
\* Exception of open and write.
save_result_propagates(outcome) == outcome # "ok"

save_result_raises(outcome) == FALSE

\* save_result opening its file with mode "x": an existing file is kept
save_result_exclusive(disk, result, output_path, outcome) ==
    LET path == txt_output_path(output_path)
    IN IF outcome = "open_fails" \/ path \in DOMAIN disk
       THEN disk
       ELSE [p \in DOMAIN disk \cup {path} |->
               IF p = path THEN (IF outcome = "ok" THEN <<result>> ELSE <<>>) ELSE disk[p]]

\* The disk after save_result(result, output_path): opening truncates or
\* creates the file; a failing open leaves the disk as it was.
save_result(disk, result, output_path, outcome) ==
    LET path == txt_output_path(output_path)
        old == IF path \in DOMAIN disk THEN disk[path] ELSE <<>>
        new == IF outcome = "ok" THEN write_content(old, result) ELSE <<>>
    IN IF outcome = "open_fails"
       THEN disk
       ELSE [p \in DOMAIN disk \cup {path} |-> IF p = path THEN new ELSE disk[p]]

-----------------------------------------------------------------------------
(* ProcessingThread.run *)

GuiUnchanged ==
    UNCHANGED <<selected_files, process_button, file_button, config,
                files_label, progress_bar, thread, clipboard, uncaught, handled,
                copies>>

SaveFailure == "Error saving"

\* The arguments wrap_and_generate is called with, and the server KoboldAPICore
\* was constructed for
RequestOfWindow(t) ==
    Processor(api_url, system_instruction, instruction_combo,
              max_length_arg(max_length_input).value)

Request(t) == Processor(t.api_url, t.system_instruction, t.instruction, t.max_length)

\* self.start_time = time.time()
WorkerStart(s) ==
    /\ threads[s].pc = "start"
    /\ threads' = [threads EXCEPT ![s].pc = "loop", ![s].start_time = TRUE]
    /\ UNCHANGED <<queue, fs, printed>>
    /\ GuiUnchanged

\* Where run goes when process_file raises: the except clause encloses the loop
AfterRaiseRetry == "loop"

AfterRaise == "exit"

\* str(e)
error_text(e) == e

\* The try statement inside the loop: error is emitted and the loop goes on
\* with the next file
RaiseAndSkip(s, t, e) ==
    Emit(s, [Did(t, "error", 0) EXCEPT !.pc = "loop", !.i = t.i + 1,
                                       !.failed_at = t.i + 1, !.raised = e],
         ErrorSignal(error_text(e)))

\* except Exception as e: self.error.emit(str(e))
Raise(s, t, e) ==
    Emit(s, [Did(t, "error", 0) EXCEPT !.pc = AfterRaise, !.failed_at = t.i + 1,
                                       !.raised = e],
         ErrorSignal(error_text(e)))

\* The loop head: the next file goes to process_file, whose first step is
\* process_image; after the last file finished is emitted.
WorkerLoop(s, preprocess_ok) ==
    LET t == threads[s]
    IN /\ t.pc = "loop"
       /\ IF t.i < Len(t.files)
          THEN LET called == [Did(t, "process_file", t.i + 1) EXCEPT
                                  !.calls = Append(@, t.i + 1)]
               IN IF preprocess_ok
                  THEN /\ threads' = [threads EXCEPT ![s] =
                              [called EXCEPT !.pc = "infer",
                                             !.output_path = process_image_path(t.files[t.i + 1]),
                                             !.request = t.max_length,
                                             !.requests = Append(@, Request(t))]]
                       /\ UNCHANGED queue
                  ELSE Raise(s, called, PreprocessError)
          ELSE Emit(s, [Did(t, "finished", 0) EXCEPT !.pc = "exit"], FinishedSignal)
       /\ UNCHANGED <<fs, printed>>
       /\ GuiUnchanged

\* if result: tested as "if result is not None:"
HasText_NotNone(result) == result # None

\* if result:
HasText(result) == Truthy(result)

\* result_ready emitted first, the text not yet saved
AfterTextEmit == "emit_result"

\* What run does first with a text: self.processor.save_result
AfterText == "save"

\* wrap_and_generate returns result, or raises
WorkerInfer(s, raises, result) ==
    LET t == threads[s]
    IN /\ t.pc = "infer"
       /\ IF raises
          THEN Raise(s, [t EXCEPT !.request = 0], InferenceError)
          ELSE /\ threads' = [threads EXCEPT ![s] =
                     [t EXCEPT !.pc = IF HasText(result) THEN AfterText ELSE "emit_progress",
                               !.result = result,
                               !.request = 0,
                               !.texts = Append(@, result)]]
               /\ UNCHANGED queue
       /\ UNCHANGED <<fs, printed>>
       /\ GuiUnchanged

\* result_ready emitted only if save_result returned True
AfterSaveIfSaved(outcome) == IF outcome = "ok" THEN "emit_result" ELSE "emit_progress"

\* run ignores what save_result returns: result_ready is emitted next
AfterSave(outcome) == "emit_result"

WorkerSave(s, outcome) ==
    LET t == threads[s]
        saved == [Did(t, "save_result", t.i + 1) EXCEPT
                     !.saves = Append(@, [file |-> t.i + 1, outcome |-> outcome])]
    IN /\ t.pc = "save"
       /\ fs' = save_result(fs, t.result, t.output_path, outcome)
       /\ printed' = IF outcome = "ok" THEN printed ELSE printed \cup {SaveFailure}
       /\ IF save_result_raises(outcome)
          THEN Raise(s, saved, WriteError)
          ELSE /\ threads' = [threads EXCEPT ![s] = [saved EXCEPT !.pc = AfterSave(outcome)]]
               /\ UNCHANGED queue
       /\ GuiUnchanged

WorkerEmitResult(s) ==
    LET t == threads[s]
    IN /\ t.pc = "emit_result"
       /\ Emit(s, [Did(t, "result_ready", t.i + 1) EXCEPT !.pc = "emit_progress"],
               ResultReadySignal(t.result))
       /\ UNCHANGED <<fs, printed>>
       /\ GuiUnchanged

\* enumerate(self.files) handing out the same index again
NextIndexStuck(i) == i

\* enumerate(self.files): the index of the next file
NextIndex(i) == i + 1

WorkerEmitProgress(s) ==
    LET t == threads[s]
    IN /\ t.pc = "emit_progress"
       /\ Emit(s, [Did(t, "progress", t.i + 1) EXCEPT !.pc = "loop", !.i = NextIndex(t.i)],
               ProgressSignal(t.i, t.files))
       /\ UNCHANGED <<fs, printed>>
       /\ GuiUnchanged

\* run returns.  An object MainWindow.thread no longer refers to is gone.
WorkerReturn(s) ==
    /\ threads[s].pc = "exit"
    /\ threads' = [threads EXCEPT ![s] =
                     IF s = thread THEN [@ EXCEPT !.pc = "returned"] ELSE NoThread]
    /\ UNCHANGED <<queue, fs, printed>>
    /\ GuiUnchanged

-----------------------------------------------------------------------------
(* Specifications *)

\* What the collaborators may do: the texts wrap_and_generate returns, what
\* becomes of a write, whether process_image succeeds, whether
\* wrap_and_generate raises.
Worker(results, saves, preprocess, inference) ==
    \E s \in Slots :
        \/ WorkerStart(s)
        \/ \E preprocess_ok \in preprocess : WorkerLoop(s, preprocess_ok)
        \/ \E raises \in inference, result \in results : WorkerInfer(s, raises, result)
        \/ \E outcome \in saves : WorkerSave(s, outcome)
        \/ WorkerEmitResult(s)
        \/ WorkerEmitProgress(s)
        \/ WorkerReturn(s)

\* The GUI thread's event loop delivering the queued signals
Slots_of_signals ==
    \/ update_progress
    \/ processing_finished
    \/ processing_error
    \/ \E copy_ok \in BOOLEAN : copy_to_clipboard(copy_ok)

\* MainWindow.__init__
Init ==
    /\ selected_files = <<>>
    /\ process_button = FALSE
    /\ file_button = TRUE
    /\ max_length_input = <<"2", "5", "6">>
    /\ api_url = DefaultApiUrl
    /\ system_instruction = DefaultSystemInstruction
    /\ instruction_combo = Instructions[1]
    /\ files_label = Label("No files selected", 0, "")
    /\ progress_bar = 0
    /\ thread = 0
    /\ threads = [s \in Slots |-> NoThread]
    /\ queue = <<>>
    /\ fs = [p \in {} |-> <<>>]
    /\ clipboard = ""
    /\ uncaught = "none"
    /\ printed = {}
    /\ handled = <<>>
    /\ copies = <<>>

\* Spec: every event of the window and of the worker, over two file lists
SampleLists == { << <<"a", ".", "p">> >>, << <<"a", ".", "p">>, <<"b", ".", "p">> >> }

Next ==
    \/ \E files \in SampleLists \cup {<<>>} : select_files(files)
    \/ \E constructor_raises \in BOOLEAN : process_files(constructor_raises)
    \/ Slots_of_signals
    \/ Worker({None, "t1"}, {"ok", "open_fails"}, {TRUE}, BOOLEAN)

Spec == Init /\ [][Next]_vars

\* SpecFair: Spec with a worker thread that keeps being scheduled and an event
\* loop that keeps serving its queue; the user is free never to click again
SpecFair ==
    /\ Init
    /\ [][Next]_vars
    /\ WF_vars(Worker({None, "t1"}, {"ok", "open_fails"}, {TRUE}, BOOLEAN))
    /\ WF_vars(Slots_of_signals)

\* The window once the user has selected files and clicked Process Images
Started(files, text) ==
    /\ selected_files = files
    /\ process_button = EnabledOnStart
    /\ file_button = EnabledOnStart
    /\ max_length_input = text
    /\ api_url = DefaultApiUrl
    /\ system_instruction = DefaultSystemInstruction
    /\ instruction_combo = Instructions[1]
    /\ files_label = Label("Selected", Len(files), "")
    /\ progress_bar = 0
    /\ thread = 1
    /\ threads = [s \in Slots |->
                    IF s = 1
                    THEN NewThread(files,
                             Processor(DefaultApiUrl, DefaultSystemInstruction,
                                       Instructions[1], max_length_arg(text).value))
                    ELSE NoThread]
    /\ queue = <<>>
    /\ clipboard = ""
    /\ uncaught = "none"
    /\ printed = {}
    /\ handled = <<>>
    /\ copies = <<>>

\* A disk holding the text file of an older run over a.p
OlderDisk == [p \in {txt_output_path(<<"a", ".", "p">>)} |-> <<"t2">>]

\* SpecRun: one run, over every file list and everything the collaborators
\* may do, on a disk that is empty or holds an older a.txt
InitRun ==
    /\ \E files \in FileLists \ {<<>>} : Started(files, <<"2", "5", "6">>)
    /\ fs \in { [p \in {} |-> <<>>], OlderDisk }

NextOfRun ==
    \/ Slots_of_signals
    \/ Worker(Results, SaveOutcomes, BOOLEAN, BOOLEAN)

SpecRun == InitRun /\ [][NextOfRun]_vars

\* SpecRunFair: SpecRun with a thread that is never descheduled for ever, every
\* call of a collaborator returning or raising, and an event loop that keeps
\* serving its queue
InitRunFair ==
    /\ \E files \in FileLists \ {<<>>} : Started(files, <<"2", "5", "6">>)
    /\ fs = [p \in {} |-> <<>>]

WorkerOfRunFair == Worker({None, "t1"}, SaveOutcomes, BOOLEAN, BOOLEAN)

NextOfRunFair ==
    \/ Slots_of_signals
    \/ WorkerOfRunFair

SpecRunFair ==
    /\ InitRunFair
    /\ [][NextOfRunFair]_vars
    /\ WF_vars(WorkerOfRunFair)
    /\ WF_vars(Slots_of_signals)

\* SpecPath: one run over one file, for every file path of the alphabet
IsFilePath(p) ==
    LET name == Suffix(p, RFind(p, "/") + 1)
    IN name # <<>> /\ name # <<".">> /\ name # <<".", ".">>

FilePaths == { p \in SeqsUpTo(PathChars, MaxPathLen) : IsFilePath(p) }

InitPath ==
    /\ \E p \in FilePaths : Started(<<p>>, <<"2", "5", "6">>)
    /\ fs = [p \in {} |-> <<>>]

NextOfPath ==
    \/ Slots_of_signals
    \/ Worker({"t1"}, SaveOutcomes, {TRUE}, BOOLEAN)

SpecPath == InitPath /\ [][NextOfPath]_vars

\* SpecConfig: the window with one file selected and any text in Max Length
InitConfig ==
    /\ selected_files = << <<"a", ".", "p">> >>
    /\ process_button = TRUE
    /\ file_button = TRUE
    /\ max_length_input \in SeqsUpTo(TextChars, MaxTextLen)
    /\ api_url = DefaultApiUrl
    /\ system_instruction = DefaultSystemInstruction
    /\ instruction_combo = Instructions[1]
    /\ files_label = Label("Selected", 1, "")
    /\ progress_bar = 0
    /\ thread = 0
    /\ threads = [s \in Slots |-> NoThread]
    /\ queue = <<>>
    /\ fs = [p \in {} |-> <<>>]
    /\ clipboard = ""
    /\ uncaught = "none"
    /\ printed = {}
    /\ handled = <<>>
    /\ copies = <<>>

NextOfConfig ==
    \/ \E constructor_raises \in BOOLEAN : process_files(constructor_raises)
    \/ Slots_of_signals
    \/ Worker({"t1"}, {"ok"}, {TRUE}, BOOLEAN)

SpecConfig == InitConfig /\ [][NextOfConfig]_vars

\* SpecEdit: the window from before the click to the end of the run the click
\* starts, with the user editing the configuration at any time, also during
\* the run
OtherApiUrl == "http://remote:5001"
OtherSystemInstruction == ""
OtherMaxLength == <<"5">>

Edits ==
    \/ \E text \in {DefaultApiUrl, OtherApiUrl} : edit_api_url(text)
    \/ \E text \in {DefaultSystemInstruction, OtherSystemInstruction} :
           edit_system_instruction(text)
    \/ \E item \in DOMAIN Instructions : choose_instruction(item)
    \/ \E text \in {<<"2", "5", "6">>, OtherMaxLength} : edit_max_length(text)

InitEdit ==
    /\ selected_files = << <<"a", ".", "p">>, <<"b", ".", "p">> >>
    /\ process_button = TRUE
    /\ file_button = TRUE
    /\ max_length_input = <<"2", "5", "6">>
    /\ api_url = DefaultApiUrl
    /\ system_instruction = DefaultSystemInstruction
    /\ instruction_combo = Instructions[1]
    /\ files_label = Label("Selected", 2, "")
    /\ progress_bar = 0
    /\ thread = 0
    /\ threads = [s \in Slots |-> NoThread]
    /\ queue = <<>>
    /\ fs = [p \in {} |-> <<>>]
    /\ clipboard = ""
    /\ uncaught = "none"
    /\ printed = {}
    /\ handled = <<>>
    /\ copies = <<>>

NextOfEdit ==
    \/ Edits
    \/ \E files \in SampleLists : select_files(files)
    \/ process_files(FALSE)
    \/ update_progress
    \/ copy_to_clipboard(TRUE)
    \/ Worker({"t1", "t2"}, {"ok"}, {TRUE}, {FALSE})

SpecEdit == InitEdit /\ [][NextOfEdit]_vars

-----------------------------------------------------------------------------
(* Properties *)

IsProgress(e) == e.sig = "progress"
IsFinished(e) == e.sig = "finished"
IsError(e) == e.sig = "error"

Terminated(t) == t.pc \in {"exit", "returned"}

\* (1, n), ..., (k, n)
ProgressUpTo(k, n) == [j \in 1..k |-> Sig("progress", j, n, "")]

\* C1: a run of N files in which no process_file call raises emits the
\* progress notifications (1, N), ..., (N, N) in that order (while it runs, the
\* first i of them), then exactly one finished and no error, whatever texts
\* the files yield.
C1_ProgressThenFinished ==
    \A s \in Slots :
        LET t == threads[s]
            n == Len(t.files)
        IN (t.pc # "free" /\ t.failed_at = 0) =>
              /\ SelectSeq(t.emitted, IsProgress) = ProgressUpTo(t.i, n)
              /\ SelectSeq(t.emitted, IsError) = <<>>
              /\ Terminated(t) =>
                    /\ t.i = n
                    /\ SelectSeq(t.emitted, IsFinished) = <<FinishedSignal>>
                    /\ t.emitted[Len(t.emitted)] = FinishedSignal

\* A run of two files ended without an exception, the first file yielding a
\* text and the second none
C1_Witness ==
    \E s \in Slots :
        LET t == threads[s]
        IN /\ Terminated(t) /\ t.failed_at = 0 /\ Len(t.files) = 2
           /\ Len(t.texts) = 2 /\ Truthy(t.texts[1]) /\ ~Truthy(t.texts[2])

\* C2: when process_file raises on file k the run emits exactly one error, with
\* the description of the exception, as its last signal; its progress
\* notifications are those of the files before k; process_file was called for
\* files 1..k only, and is never called again; finished is never emitted.
C2_FailureAborts ==
    \A s \in Slots :
        LET t == threads[s]
            k == t.failed_at
        IN k > 0 =>
              /\ Terminated(t)
              /\ t.raised \in {PreprocessError, InferenceError}
              /\ SelectSeq(t.emitted, IsError) = <<ErrorSignal(t.raised)>>
              /\ t.emitted[Len(t.emitted)] = ErrorSignal(t.raised)
              /\ SelectSeq(t.emitted, IsProgress) = ProgressUpTo(k - 1, Len(t.files))
              /\ SelectSeq(t.emitted, IsFinished) = <<>>
              /\ t.calls = [j \in 1..k |-> j]

\* process_file raised on the second of two files, and the run has returned
C2_Witness ==
    \E s \in Slots :
        /\ threads[s].pc = "returned" /\ threads[s].failed_at = 2
        /\ Len(threads[s].files) = 2

\* The signals of a run whose process_file calls returned texts, n files in all
RECURSIVE SignalsFor(_, _)
SignalsFor(texts, n) ==
    IF texts = <<>> THEN <<>>
    ELSE LET k == Len(texts)
         IN SignalsFor(Prefix(texts, k - 1), n)
              \o (IF Truthy(texts[k]) THEN <<ResultReadySignal(texts[k])>> ELSE <<>>)
              \o <<Sig("progress", k, n, "")>>

\* C3: whatever becomes of the writes, a run that has ended emitted the signals
\* its texts alone determine, closed by finished or, if process_file raised,
\* by the error of process_file; a failed write is no error of the run, and a
\* run without an exception of process_file called it for every file.
C3_WriteFailureIsSilent ==
    \A s \in Slots :
        LET t == threads[s]
        IN (t.pc # "free" /\ Terminated(t)) =>
              /\ t.raised # WriteError
              /\ t.emitted = SignalsFor(t.texts, Len(t.files))
                               \o <<IF t.failed_at > 0 THEN ErrorSignal(t.raised)
                                    ELSE FinishedSignal>>
              /\ t.failed_at = 0 => t.calls = [j \in 1..Len(t.files) |-> j]

\* A run of two files ended with finished though the write of the first failed
C3_Witness ==
    \E s \in Slots :
        LET t == threads[s]
        IN /\ Terminated(t) /\ t.failed_at = 0 /\ Len(t.files) = 2
           /\ Len(t.saves) >= 1 /\ t.saves[1].file = 1 /\ t.saves[1].outcome # "ok"
           /\ t.calls = <<1, 2>>

\* C4 (as claimed): at most one worker run is active, started and not yet
\* returned from run.
C4_AtMostOneActive ==
    Cardinality({ s \in Slots : Active(threads[s]) }) <= 1

\* What the code does keep: at most one run has yet to emit finished or error,
\* so at most one inference request is in flight.
AtMostOneRunning ==
    Cardinality({ s \in Slots : Running(threads[s]) }) <= 1

RunningImpliesDisabled ==
    \A s \in Slots : Running(threads[s]) => ~process_button /\ ~file_button

\* A button the run trigger disabled is enabled again only by the handler of
\* finished or of error
ReenabledOnlyByHandlers ==
    ((~file_button /\ file_button') \/ (~file_button /\ ~process_button /\ process_button'))
        => /\ queue # <<>>
           /\ Head(queue).sig \in {"finished", "error"}
           /\ queue' = Tail(queue)

\* C5: while a worker is running (it has emitted neither finished nor error)
\* both buttons are disabled, and a disabled file_button, or a process_button
\* disabled with it, is enabled again only by processing_finished or
\* processing_error.
C5_DisabledWhileRunning ==
    [] RunningImpliesDisabled /\ [][ReenabledOnlyByHandlers]_vars

\* A worker is running, its first progress already handled by the window
C5_Witness ==
    \E s \in Slots :
        /\ Running(threads[s]) /\ threads[s].i >= 1
        /\ queue = <<>> /\ progress_bar > 0
        /\ ~process_button /\ ~file_button

EndsWith(p, ext) == Len(p) >= Len(ext) /\ Suffix(p, Len(p) - Len(ext) + 1) = ext

\* The directory part of a path, with its last separator, and the file name
DirOf(p) == Prefix(p, RFind(p, "/"))
NameOf(p) == Suffix(p, RFind(p, "/") + 1)

HasNonDot(q) == \E k \in 1..Len(q) : q[k] # "."

\* The name has an extension: a dot that follows a character other than a dot
HasExtension(name) ==
    \E k \in 2..Len(name) : name[k] = "." /\ HasNonDot(Prefix(name, k - 1))

\* written is where the text of source belongs: same directory, the .txt
\* extension, and before it the name of source less its extension (its last
\* dot and what follows, unless only dots precede that dot).
IsTextFileOf(written, source) ==
    /\ EndsWith(written, TxtExt)
    /\ DirOf(written) = DirOf(source)
    /\ LET base == Prefix(NameOf(written), Len(NameOf(written)) - Len(TxtExt))
           name == NameOf(source)
           ext == Suffix(name, Len(base) + 1)
       IN /\ base # <<>>
          /\ Len(base) <= Len(name)
          /\ base = Prefix(name, Len(base))
          /\ IF HasExtension(name)
             THEN /\ ext # <<>> /\ Head(ext) = "."
                  /\ \A k \in 2..Len(ext) : ext[k] # "."
                  /\ HasNonDot(base)
             ELSE ext = <<>>

\* C6: the file save_result creates or truncates is the text file of the
\* source path: it ends in .txt, lies in the directory of the source and is
\* named as the source less its extension, also for a source without
\* extension, with several dots or with a leading dot.
C6_TextPathOfSource ==
    \A s \in Slots :
        LET t == threads[s]
        IN (t.saves # <<>> /\ t.pc = "emit_result") =>
              \A written \in DOMAIN fs : IsTextFileOf(written, t.files[t.i + 1])

\* The text of .a.b was saved as .a.txt
C6_Witness ==
    \E s \in Slots :
        /\ threads[s].pc = "emit_result"
        /\ threads[s].files = << <<".", "a", ".", "b">> >>
        /\ threads[s].saves = << [file |-> 1, outcome |-> "ok"] >>
        /\ DOMAIN fs = { <<".", "a", ".", "t", "x", "t">> }

TextPaths(files) == { txt_output_path(files[k]) : k \in 1..Len(files) }

\* The run of the thread the window refers to has ended with finished, every
\* file having yielded a text and every write having succeeded
RunSucceeded(t) ==
    /\ Terminated(t) /\ t.failed_at = 0
    /\ Len(t.texts) = Len(t.files)
    /\ \A k \in 1..Len(t.texts) : Truthy(t.texts[k])
    /\ Len(t.saves) = Len(t.files)
    /\ \A k \in 1..Len(t.saves) : t.saves[k].outcome = "ok"

OneTextFilePerImage(t) ==
    /\ Cardinality(TextPaths(t.files)) = Len(t.files)
    /\ \A k \in 1..Len(t.files) :
          /\ txt_output_path(t.files[k]) \in DOMAIN fs
          /\ fs[txt_output_path(t.files[k])] = <<t.texts[k]>>

\* C7 (as claimed): after a successful run over N distinct image paths there
\* are N distinct text files, each holding the text generated for its image.
C7_OneTextFilePerImage ==
    (thread # 0 /\ RunSucceeded(threads[thread]) /\ IsInjective(threads[thread].files))
        => OneTextFilePerImage(threads[thread])

\* C7 (amended): after a successful run over N image paths whose text paths
\* (extension replaced by .txt) are pairwise distinct there are N distinct
\* text files, each holding the text generated for its image.
C7_OneTextFilePerTextPath ==
    (/\ thread # 0
     /\ RunSucceeded(threads[thread])
     /\ Cardinality(TextPaths(threads[thread].files)) = Len(threads[thread].files))
        => OneTextFilePerImage(threads[thread])

\* A successful run over a.p and b.p with two different texts, a.txt having
\* held an older text
C7_Witness ==
    /\ thread # 0
    /\ RunSucceeded(threads[thread])
    /\ threads[thread].files = << <<"a", ".", "p">>, <<"b", ".", "p">> >>
    /\ threads[thread].texts = <<"t1", "t2">>

\* C8: when save_result has written, the file holds exactly the text of that
\* call, whatever it held before: the text of an earlier call, the same text,
\* or nothing.
C8_FullOverwrite ==
    \A s \in Slots :
        LET t == threads[s]
        IN (t.pc = "emit_result" /\ t.saves[Len(t.saves)].outcome = "ok") =>
              /\ txt_output_path(t.output_path) \in DOMAIN fs
              /\ fs[txt_output_path(t.output_path)] = <<t.result>>

\* The same text has been saved twice to a.txt, for a.p and then for a.j
C8_Witness ==
    \E s \in Slots :
        LET t == threads[s]
        IN /\ t.pc = "emit_result" /\ t.i = 1
           /\ txt_output_path(t.files[1]) = txt_output_path(t.files[2])
           /\ t.texts = <<"t1", "t1">>
           /\ t.saves = << [file |-> 1, outcome |-> "ok"], [file |-> 2, outcome |-> "ok"] >>

\* The text is numeric: decimal digits and nothing else
IsNumeric(text) == text # <<>> /\ \A k \in 1..Len(text) : text[k] \in DecimalDigits

ClaimedLimit(text) == IF IsNumeric(text) THEN DecimalValue(text) ELSE DefaultMaxLength

\* C9 (as claimed): a click on Process Images raises no error for any text of
\* Max Length, and the run it starts has the integer value of a numeric text
\* as its limit and 256 for every other text.
C9_LimitOrDefault ==
    [][(process_button /\ ~process_button') =>
          /\ uncaught' # ValueError
          /\ threads' # threads =>
                threads'[thread'].max_length = ClaimedLimit(max_length_input)]_vars

\* C10 (as claimed): the output length limit of a run and of each of its
\* inference requests is greater than 0.
C10_PositiveLimit ==
    \A s \in Slots :
        /\ Running(threads[s]) => threads[s].max_length > 0
        /\ threads[s].pc = "infer" => threads[s].request > 0

IsResult(e) == e.sig = "result_ready"
IsTerminal(e) == IsFinished(e) \/ IsError(e)

\* How many signals of the log satisfy Test
Count(log, Test(_)) == Len(SelectSeq(log, Test))

\* The texts of the files that yielded non-empty text, in the order of the list
NonEmptyTexts(t) == SelectSeq(t.texts, Truthy)

\* C11: the window handles the signals of the run in the order the worker
\* emitted them, each once: what it has handled, followed by what is still
\* queued, is what the worker has emitted.  So pyperclip.copy is called once
\* for each file that yielded non-empty text, in the order of the list and
\* with the text of that file, and every such call is made before
\* processing_finished or processing_error runs.
C11_HandledInEmitOrder ==
    LET t == threads[thread]
        texts == NonEmptyTexts(t)
    IN /\ handled \o queue = t.emitted
       /\ Count(handled, IsResult) <= Len(texts)
       /\ copies = SubSeq(texts, 1, Count(handled, IsResult))
       /\ Count(handled, IsTerminal) > 0 => copies = texts

\* Two files with different texts, an empty one between or not, and the
\* completion handled after both copies
C11_Witness ==
    /\ Count(handled, IsFinished) = 1
    /\ queue = <<>>
    /\ copies = <<"t2", "t1">>
    /\ threads[thread].texts = <<"t2", "t1">>

\* A step of copy_to_clipboard, whether pyperclip.copy returns or raises
CopyStep ==
    /\ queue # <<>> /\ IsResult(Head(queue))
    /\ handled' = Append(handled, Head(queue))

\* What a step of the window leaves alone when it touches only the clipboard
CopyFrame ==
    /\ queue' = Tail(queue)
    /\ UNCHANGED <<threads, fs, process_button, file_button, progress_bar,
                   files_label, uncaught, selected_files, thread>>

\* An error signal comes from an exception of process_file and from nothing else
ErrorsAreOfProcessFile ==
    LET t == threads[thread]
    IN Count(t.emitted, IsError) > 0 =>
          t.failed_at > 0 /\ t.raised \in {PreprocessError, InferenceError}

\* A run without an exception of process_file ends with finished, whatever
\* pyperclip.copy did, and handling it enables both buttons
EndsWithFinished ==
    LET t == threads[thread]
    IN /\ (Terminated(t) /\ t.failed_at = 0) =>
             t.emitted = SignalsFor(t.texts, Len(t.files)) \o <<FinishedSignal>>
       /\ Count(handled, IsTerminal) > 0 => process_button /\ file_button

\* C12: a failure of pyperclip.copy is never fatal.  No exception leaves the
\* handler and no error signal is emitted for it; the step that handles
\* result_ready changes nothing of the worker, of the files on disk, of the
\* progress bar and of the enabled state of the buttons; and the run still
\* ends with finished.
C12_CopyFailureIsSilent ==
    /\ [](uncaught = "none" /\ ErrorsAreOfProcessFile /\ EndsWithFinished)
    /\ [][CopyStep => CopyFrame]_vars

\* Every copy of a run of two files failed; the run completed and the window
\* has handled finished
C12_Witness ==
    /\ CopyFailure \in printed
    /\ clipboard = ""
    /\ Len(copies) = 2
    /\ Count(handled, IsFinished) = 1
    /\ process_button /\ file_button
    /\ threads[thread].saves = << [file |-> 1, outcome |-> "ok"], [file |-> 2, outcome |-> "ok"] >>

\* process_file is called for the files of the list in order, each at most once
CalledAtMostOnce(t) ==
    /\ Len(t.calls) <= Len(t.files)
    /\ \A k \in 1..Len(t.calls) : t.calls[k] = k

\* The run completed, or it failed
Completed(t) == Terminated(t) /\ t.failed_at = 0 /\ Count(t.emitted, IsFinished) = 1
Failed(t) == Terminated(t) /\ t.failed_at > 0 /\ Count(t.emitted, IsError) = 1

\* C13: every started run terminates: a worker that is Running at some time
\* has later left Running for good, Completed or Failed, and in between it
\* called process_file at most once for each file of its list.
C13_RunTerminates ==
    /\ Running(threads[thread]) ~> [](Completed(threads[thread]) \/ Failed(threads[thread]))
    /\ [](\A s \in Slots : CalledAtMostOnce(threads[s]))

\* Both ends of a run of two files: completed after two calls, failed at the second
C13_Witness ==
    LET t == threads[thread]
    IN /\ t.calls = <<1, 2>>
       /\ Len(t.files) = 2
       /\ t.pc = "returned"
       /\ Completed(t) \/ Failed(t)

\* Every request the run has made carries the configuration the run holds
RequestsOfOneConfig(t) ==
    /\ Len(t.requests) <= Len(t.files)
    /\ \A k \in 1..Len(t.requests) : t.requests[k] = Request(t)

\* A click that starts a run gives it the configuration and the list of the
\* window at that moment
StartsWithWindow ==
    (process_button /\ ~process_button' /\ threads' # threads) =>
        /\ Request(threads'[thread']) = RequestOfWindow(threads'[thread'])
        /\ threads'[thread'].files = selected_files

\* No step changes the configuration or the list of a run in progress
FixedWhileRunning ==
    \A s \in Slots :
        Running(threads[s]) =>
            /\ Request(threads'[s]) = Request(threads[s])
            /\ threads'[s].files = threads[s].files

\* C14: the configuration of a job and its file list are fixed when the run
\* starts: they are those of the window at the click, no later step changes
\* them while the run is in progress, whatever the user edits meanwhile, and
\* every inference request of the run carries the same server address,
\* system instruction, user instruction and output length limit.
C14_ConfigFixedAtStart ==
    /\ [](\A s \in Slots : Running(threads[s]) => RequestsOfOneConfig(threads[s]))
    /\ [][StartsWithWindow /\ FixedWhileRunning]_vars

\* A run of two files has made both requests although every field of the
\* window was edited after the click
C14_Witness ==
    LET t == threads[thread]
    IN /\ thread # 0 /\ t.pc = "infer"
       /\ Len(t.requests) = 2
       /\ api_url # t.api_url
       /\ system_instruction # t.system_instruction
       /\ instruction_combo # t.instruction
       /\ max_length_arg(max_length_input).value # t.max_length

IsPrefixOf(a, b) == Len(a) <= Len(b) /\ a = SubSeq(b, 1, Len(a))

\* What run does for the files that yielded texts, in order: process_file,
\* then, for a non-empty text, save_result and result_ready, then progress
RECURSIVE TraceFor(_)
TraceFor(texts) ==
    IF texts = <<>> THEN <<>>
    ELSE LET k == Len(texts)
         IN TraceFor(Prefix(texts, k - 1))
              \o <<Event("process_file", k)>>
              \o (IF Truthy(texts[k])
                  THEN <<Event("save_result", k), Event("result_ready", k)>>
                  ELSE <<>>)
              \o <<Event("progress", k)>>

IsTerminalEvent(e) == e.op \in {"finished", "error"}

\* The trace of the run without its closing finished or error
Body(t) == SelectSeq(t.trace, LAMBDA e : ~IsTerminalEvent(e))

\* C15: within a run the files are handled strictly in the order of the list:
\* for each file process_file, then, only if it returned a text, save_result
\* followed by result_ready, then progress; process_file is not called for
\* the next file before progress of the current one was emitted.
C15_PerFileOrder ==
    LET t == threads[thread]
    IN /\ IsPrefixOf(Body(t), TraceFor(t.texts) \o <<Event("process_file", Len(t.texts) + 1)>>)
       /\ t.pc = "loop" => Body(t) = TraceFor(t.texts) /\ Len(t.texts) = t.i
       /\ Completed(t) => Body(t) = TraceFor(t.texts) /\ Len(t.texts) = Len(t.files)
       /\ \A k \in 1..Len(t.trace) :
             (t.trace[k].op = "save_result" \/ t.trace[k].op = "result_ready")
                => t.texts[t.trace[k].file] # None

\* A completed run of two files, the first with a text, the second without
C15_Witness ==
    LET t == threads[thread]
    IN /\ Completed(t)
       /\ t.texts = <<"t1", None>>
       /\ Len(t.trace) = 7

\* The file yielded no text: None or the empty string
NoText(result) == result = None \/ result = ""

EventsOf(t, k) == { t.trace[j].op : j \in { j \in 1..Len(t.trace) : t.trace[j].file = k } }

\* Nothing is saved and nothing is signalled as a result for a file without
\* text, and once the loop has passed the file its progress was emitted
NoOutputWithoutText(t) ==
    \A k \in 1..Len(t.texts) :
        NoText(t.texts[k]) =>
            /\ EventsOf(t, k) \subseteq {"process_file", "progress"}
            /\ \A j \in 1..Len(t.saves) : t.saves[j].file # k
            /\ t.i >= k =>
                  /\ "progress" \in EventsOf(t, k)
                  /\ Count(t.emitted, LAMBDA e : e = Sig("progress", k, Len(t.files), "")) = 1

\* The disk changes only in a step of save_result, called with a non-empty text
WritesOnlyOfText ==
    fs' # fs => threads[thread].pc = "save" /\ ~NoText(threads[thread].result)

\* C16: for a file whose text is None or empty neither save_result is called
\* nor result_ready emitted: no text file is created or overwritten, nothing
\* is copied to the clipboard for it, and yet progress (index + 1, total) is
\* emitted for it and the run goes on to the next file.
C16_NoTextNoOutput ==
    /\ [](/\ NoOutputWithoutText(threads[thread])
          /\ Count(threads[thread].emitted, IsResult) <= Len(NonEmptyTexts(threads[thread]))
          /\ \A k \in 1..Len(copies) : ~NoText(copies[k]))
    /\ [][WritesOnlyOfText]_vars

\* A completed run over a.p and a second file, the texts None and empty: the
\* older a.txt is as it was, nothing was copied, both progress signals handled
C16_Witness ==
    LET t == threads[thread]
    IN /\ Completed(t)
       /\ t.texts = <<None, "">>
       /\ fs = [p \in {txt_output_path(<<"a", ".", "p">>)} |-> <<"t2">>]
       /\ t.files[1] = <<"a", ".", "p">>
       /\ copies = <<>> /\ clipboard = ""
       /\ handled = <<Sig("progress", 1, 2, ""), Sig("progress", 2, 2, ""), FinishedSignal>>

PositionsOf(t, op, k) == { j \in 1..Len(t.trace) : t.trace[j] = Event(op, k) }

\* result_ready of file k was emitted exactly once, right after the one
\* save_result call for k returned, with the text of k
ResultOnceAfterSave(t, k) ==
    /\ Cardinality(PositionsOf(t, "result_ready", k)) = 1
    /\ Cardinality(PositionsOf(t, "save_result", k)) = 1
    /\ \A r \in PositionsOf(t, "result_ready", k) : r - 1 \in PositionsOf(t, "save_result", k)
    /\ Count(t.saves, LAMBDA e : e.file = k) = 1

\* C17 (as claimed): for every file whose text is not absent, result_ready is
\* emitted exactly once, after save_result returned.
C17_ResultForEveryText ==
    LET t == threads[thread]
    IN \A k \in 1..t.i : t.texts[k] # None => ResultOnceAfterSave(t, k)

\* C17: for every file whose text is neither absent nor empty, result_ready is
\* emitted exactly once, after save_result returned and whatever became of the
\* write; the signals the window receives are those the texts alone determine,
\* and a failed write leaves only a printed line.
C17_ResultForEveryNonEmptyText ==
    LET t == threads[thread]
    IN /\ \A k \in 1..t.i : Truthy(t.texts[k]) => ResultOnceAfterSave(t, k)
       /\ t.pc = "loop" => t.emitted = SignalsFor(t.texts, Len(t.files))
       /\ (\E j \in 1..Len(t.saves) : t.saves[j].outcome # "ok") <=> SaveFailure \in printed
       /\ uncaught = "none"

\* Both writes of a run failed, both texts reached the window, and the run completed
C17_Witness ==
    LET t == threads[thread]
    IN /\ Completed(t)
       /\ t.saves = << [file |-> 1, outcome |-> "open_fails"], [file |-> 2, outcome |-> "write_fails"] >>
       /\ copies = <<"t1", "t2">>
       /\ SaveFailure \in printed
       /\ Count(handled, IsFinished) = 1

\* save_result was called for file k and opened its text file
Wrote(t, k) == \E j \in 1..Len(t.saves) : t.saves[j].file = k /\ t.saves[j].outcome # "open_fails"

WroteAll(t, k) == \E j \in 1..Len(t.saves) : t.saves[j].file = k /\ t.saves[j].outcome = "ok"

\* No file of the list after k wrote the text path of file k
LastWriterOfPath(t, k) ==
    \A j \in (k + 1)..Len(t.files) :
        Wrote(t, j) => txt_output_path(t.files[j]) # txt_output_path(t.files[k])

\* The disk of a run that failed at file failed_at: what the files before it
\* wrote is in place, and the text path of no other file of the list was touched
DiskOfFailedRun(t) ==
    /\ \A j \in 1..Len(t.saves) : t.saves[j].file < t.failed_at
    /\ \A k \in 1..(t.failed_at - 1) :
          (WroteAll(t, k) /\ LastWriterOfPath(t, k)) =>
              LET path == txt_output_path(t.files[k])
              IN path \in DOMAIN fs /\ fs[path] = <<t.texts[k]>>
    /\ \A k \in t.failed_at..Len(t.files) :
          LET path == txt_output_path(t.files[k])
          IN (\A j \in 1..(t.failed_at - 1) :
                 Wrote(t, j) => txt_output_path(t.files[j]) # path)
             => (path \in DOMAIN fs => path \in DOMAIN OlderDisk /\ fs[path] = OlderDisk[path])

\* C18: a failed run rolls nothing back and writes nothing more.  When the run
\* has failed at file i, save_result was called only for files before i, the
\* text file each of them wrote holds the text written to it (the last one
\* written, where two files of the list share a text path), the text paths of
\* file i and of the later files are as they were before the run, and no
\* later step changes the disk.
C18_NoRollback ==
    /\ [](threads[thread].failed_at > 0 => DiskOfFailedRun(threads[thread]))
    /\ [][threads[thread].failed_at > 0 => fs' = fs]_vars

\* The run over b.p and a.p failed at a.p: b.txt holds the text of b.p, the
\* older a.txt is as it was, and the window has handled the error
C18_Witness ==
    LET t == threads[thread]
    IN /\ t.failed_at = 2 /\ t.pc = "returned"
       /\ t.files = << <<"b", ".", "p">>, <<"a", ".", "p">> >>
       /\ t.saves = << [file |-> 1, outcome |-> "ok"] >>
       /\ fs = [p \in {txt_output_path(<<"a", ".", "p">>), txt_output_path(<<"b", ".", "p">>)} |->
                   IF p = txt_output_path(<<"b", ".", "p">>) THEN <<"t1">> ELSE <<"t2">>]
       /\ Count(handled, IsError) = 1

\* C19: a run emits at most one terminal signal, finished or error and never
\* both, and it is the last signal of the run: no progress and no result_ready
\* follows it.  A run that has ended emitted exactly one.
C19_OneTerminalSignalLast ==
    LET t == threads[thread]
        n == Len(t.emitted)
    IN /\ Count(t.emitted, IsTerminal) <= 1
       /\ \A k \in 1..n : IsTerminal(t.emitted[k]) => k = n
       /\ Terminated(t) <=> Count(t.emitted, IsTerminal) = 1
       /\ Count(t.emitted, IsFinished) = 1 => t.failed_at = 0
       /\ Count(t.emitted, IsError) = 1 => t.failed_at > 0

\* A run of two files that failed at the second after a text for the first:
\* result_ready, progress, error, and nothing after it
C19_Witness ==
    LET t == threads[thread]
    IN /\ t.pc = "returned"
       /\ t.emitted = <<ResultReadySignal("t1"), Sig("progress", 1, 2, ""),
                        ErrorSignal(error_text(InferenceError))>>
       /\ handled = t.emitted

\* C20 (as claimed): the buttons never stay disabled for ever: whenever a
\* click on Process Images has disabled Select Images and Process Images,
\* both are enabled again at some later time, whether the run completes,
\* fails, or the construction of LLMProcessor raises inside process_files.
C20_ButtonsEnabledAgain ==
    (~file_button /\ ~process_button) ~> (file_button /\ process_button)

====
